---- MODULE Spec2Model ----
(***************************************************************************)
(* Address book bot (Exercise_1.py): validated fields, Record,             *)
(* AddressBook and the command handlers, as a state machine.               *)
(*                                                                         *)
(* Strings are sequences of one-character strings, so that len(), strip(), *)
(* isdigit() and strptime() are computed character by character.           *)
(* A date is a record [y, m, d].                                           *)
(***************************************************************************)
EXTENDS Integers, Sequences, FiniteSets, TLC

VARIABLES
    data,    \* AddressBook.data: the dict, as its items in insertion order
    last,    \* the call made last: operation, arguments, exception raised,
             \* and (before) the phone list a phone method was called on, as
             \* it was when the call began
    report   \* what get_birthdays_per_week gave on the last "birthdays"

vars == <<data, last, report>>

----------------------------------------------------------------------------
(* Bounds and input alphabets                                              *)

\* At most this many phones are held by the whole book.
MaxPhones == 2

NameA  == <<"A">>
NameB  == <<"B">>
Blank  == <<" ">>

PhoneP == <<"1","2","3","4","5","6","7","8","9","0">>
PhoneQ == <<"0","9","8","7","6","5","4","3","2","1">>
Letters == <<"a","b","c","d","e","f","g","h","i","j">>
Short  == <<"1","2","3">>

DateJan2  == <<"0","2",".","0","1",".","1","9","9","0">>
DateFeb29 == <<"2","9",".","0","2",".","2","0","2","0">>
DateJun12 == <<"1","2",".","0","6",".","2","0","0","0">>
DateFeb31 == <<"3","1",".","0","2",".","2","0","2","0">>
DateShortYear == <<"1","2",".","0","6",".","9","0">>

NameInputs  == {NameA, NameB, Blank, <<>>}
KeyInputs   == {NameA, NameB}
PhoneInputs == {PhoneP, PhoneQ, Letters, Short}
DateInputs  == {DateJan2, DateFeb31}
ReportDateInputs == {DateJan2, DateFeb29, DateJun12, DateFeb31, DateShortYear}

----------------------------------------------------------------------------
(* str methods                                                             *)

Digits == {"0","1","2","3","4","5","6","7","8","9"}
Whitespace == {" ", "\t", "\n"}

DigitVal(c) ==
    CASE c = "0" -> 0 [] c = "1" -> 1 [] c = "2" -> 2 [] c = "3" -> 3
      [] c = "4" -> 4 [] c = "5" -> 5 [] c = "6" -> 6 [] c = "7" -> 7
      [] c = "8" -> 8 [] c = "9" -> 9

\* str.isdigit(): false on the empty string
isdigit(s) == Len(s) > 0 /\ \A i \in 1..Len(s) : s[i] \in Digits

\* truthiness of value.strip()
strip_nonempty(s) == \E i \in 1..Len(s) : s[i] \notin Whitespace

RECURSIVE int(_)
int(s) == IF s = <<>> THEN 0
          ELSE 10 * int(SubSeq(s, 1, Len(s) - 1)) + DigitVal(s[Len(s)])

----------------------------------------------------------------------------
(* datetime.date                                                           *)

IsLeap(y) == y % 4 = 0 /\ (y % 100 # 0 \/ y % 400 = 0)

DaysInMonth(y, m) ==
    CASE m \in {1, 3, 5, 7, 8, 10, 12} -> 31
      [] m \in {4, 6, 9, 11} -> 30
      [] m = 2 -> IF IsLeap(y) THEN 29 ELSE 28

RECURSIVE DaysBeforeMonth(_, _)
DaysBeforeMonth(y, m) ==
    IF m = 1 THEN 0 ELSE DaysBeforeMonth(y, m - 1) + DaysInMonth(y, m - 1)

DaysBeforeYear(y) ==
    (y - 1) * 365 + ((y - 1) \div 4) - ((y - 1) \div 100) + ((y - 1) \div 400)

\* date(y, m, d) is constructible
ValidDate(y, m, d) ==
    /\ y \in 1..9999
    /\ m \in 1..12
    /\ d \in 1..DaysInMonth(y, m)

toordinal(dt) == DaysBeforeYear(dt.y) + DaysBeforeMonth(dt.y, dt.m) + dt.d

\* date.fromordinal, as datetime._ord2ymd computes it
fromordinal(ord) ==
    LET n0   == ord - 1
        n400 == n0 \div 146097
        r400 == n0 % 146097
        n100 == r400 \div 36524
        r100 == r400 % 36524
        n4   == r100 \div 1461
        r4   == r100 % 1461
        n1   == r4 \div 365
        n    == r4 % 365
        year == n400 * 400 + 1 + n100 * 100 + n4 * 4 + n1
        mm   == CHOOSE k \in 1..12 :
                    /\ DaysBeforeMonth(year, k) <= n
                    /\ n < DaysBeforeMonth(year, k) + DaysInMonth(year, k)
    IN  IF n1 = 4 \/ n100 = 4
        THEN [y |-> year - 1, m |-> 12, d |-> 31]
        ELSE [y |-> year, m |-> mm, d |-> n - DaysBeforeMonth(year, mm) + 1]

\* date.weekday(): Monday is 0
weekday(dt) == (toordinal(dt) + 6) % 7

\* strftime("%A")
DayName(dt) ==
    <<"Monday", "Tuesday", "Wednesday", "Thursday", "Friday", "Saturday",
      "Sunday">>[weekday(dt) + 1]

\* date < date
DateLess(a, b) ==
    \/ a.y < b.y
    \/ a.y = b.y /\ a.m < b.m
    \/ a.y = b.y /\ a.m = b.m /\ a.d < b.d

NoDate == [y |-> 0, m |-> 0, d |-> 0]

\* The fields of s between its "." characters.
RECURSIVE SplitDots(_)
SplitDots(s) ==
    IF \A i \in 1..Len(s) : s[i] # "."
    THEN <<s>>
    ELSE LET k == CHOOSE i \in 1..Len(s) :
                      s[i] = "." /\ \A j \in 1..(i - 1) : s[j] # "."
         IN  <<SubSeq(s, 1, k - 1)>> \o SplitDots(SubSeq(s, k + 1, Len(s)))

\* The %d field: one or two digits, or a space and a digit other than 0.
IsDayField(f) ==
    \/ isdigit(f) /\ Len(f) \in 1..2
    \/ Len(f) = 2 /\ f[1] = " " /\ f[2] \in Digits \ {"0"}

DayOf(f) == IF f[1] = " " THEN DigitVal(f[2]) ELSE int(f)

\* datetime.strptime(value, '%d.%m.%Y').date(); NoDate when it raises
\* ValueError.  %m takes one or two digits, %Y exactly four.
strptime(s) ==
    LET f == SplitDots(s)
    IN  IF /\ Len(f) = 3
           /\ IsDayField(f[1])
           /\ isdigit(f[2]) /\ Len(f[2]) \in 1..2
           /\ isdigit(f[3]) /\ Len(f[3]) = 4
           /\ ValidDate(int(f[3]), int(f[2]), DayOf(f[1]))
        THEN [y |-> int(f[3]), m |-> int(f[2]), d |-> DayOf(f[1])]
        ELSE NoDate

----------------------------------------------------------------------------
(* Fields: TRUE when the constructor returns, FALSE when it raises         *)
(* ValueError.                                                             *)

Name(value) == strip_nonempty(value)

Phone(value) == ~(~isdigit(value) \/ Len(value) # 10)

Birthday(value) == strptime(value) # NoDate

----------------------------------------------------------------------------
(* Record.  A record is [name, phones, birthday]; birthday <<>> is None.   *)
(* Each method gives [raised, rec]: whether it raised ValueError, and the  *)
(* record as the call left it.                                             *)

None == <<>>

Record(name) == [name |-> name, phones |-> <<>>, birthday |-> None]

add_phone(rec, phone) ==
    IF Phone(phone)
    THEN [raised |-> FALSE,
          rec |-> [rec EXCEPT !.phones = Append(@, phone)]]
    ELSE [raised |-> TRUE, rec |-> rec]

remove_phone(rec, phone) ==
    [raised |-> FALSE,
     rec |-> [rec EXCEPT !.phones = SelectSeq(@, LAMBDA p : p # phone)]]

\* The for loop of edit_phone from position i on: every entry equal to
\* old_phone is checked and then overwritten, one after the other.
RECURSIVE edit_loop(_, _, _, _)
edit_loop(phones, i, old_phone, new_phone) ==
    IF i > Len(phones)
    THEN [raised |-> FALSE, phones |-> phones]
    ELSE IF phones[i] = old_phone
         THEN IF Len(new_phone) # 10
              THEN [raised |-> TRUE, phones |-> phones]
              ELSE edit_loop([phones EXCEPT ![i] = new_phone], i + 1,
                             old_phone, new_phone)
         ELSE edit_loop(phones, i + 1, old_phone, new_phone)

\* Variant: the entry is overwritten before the length is checked.
RECURSIVE edit_loop_commit_first(_, _, _, _)
edit_loop_commit_first(phones, i, old_phone, new_phone) ==
    IF i > Len(phones)
    THEN [raised |-> FALSE, phones |-> phones]
    ELSE IF phones[i] = old_phone
         THEN IF Len(new_phone) # 10
              THEN [raised |-> TRUE,
                    phones |-> [phones EXCEPT ![i] = new_phone]]
              ELSE edit_loop_commit_first([phones EXCEPT ![i] = new_phone],
                                          i + 1, old_phone, new_phone)
         ELSE edit_loop_commit_first(phones, i + 1, old_phone, new_phone)

edit_phone_commit_first(rec, old_phone, new_phone) ==
    LET r == edit_loop_commit_first(rec.phones, 1, old_phone, new_phone)
    IN  [raised |-> r.raised, rec |-> [rec EXCEPT !.phones = r.phones]]

\* Variant: the loop breaks after the first entry it overwrites.
edit_phone_first_only(rec, old_phone, new_phone) ==
    IF \A i \in 1..Len(rec.phones) : rec.phones[i] # old_phone
    THEN [raised |-> FALSE, rec |-> rec]
    ELSE IF Len(new_phone) # 10
    THEN [raised |-> TRUE, rec |-> rec]
    ELSE LET k == CHOOSE i \in 1..Len(rec.phones) :
                      /\ rec.phones[i] = old_phone
                      /\ \A j \in 1..(i - 1) : rec.phones[j] # old_phone
         IN  [raised |-> FALSE, rec |-> [rec EXCEPT !.phones[k] = new_phone]]

\* Variant: new_phone is validated by Phone() before the loop starts.
edit_phone_validate_first(rec, old_phone, new_phone) ==
    IF ~Phone(new_phone)
    THEN [raised |-> TRUE, rec |-> rec]
    ELSE [raised |-> FALSE,
          rec |-> [rec EXCEPT !.phones = edit_loop(@, 1, old_phone,
                                                   new_phone).phones]]

edit_phone(rec, old_phone, new_phone) ==
    LET r == edit_loop(rec.phones, 1, old_phone, new_phone)
    IN  [raised |-> r.raised, rec |-> [rec EXCEPT !.phones = r.phones]]

add_birthday(rec, birthday) ==
    IF Birthday(birthday)
    THEN [raised |-> FALSE, rec |-> [rec EXCEPT !.birthday = birthday]]
    ELSE [raised |-> TRUE, rec |-> rec]

----------------------------------------------------------------------------
(* AddressBook.  The dict is the sequence of its items [key, rec] in       *)
(* insertion order; assigning to a key that exists keeps its position.     *)

Keys(d) == {d[i].key : i \in 1..Len(d)}

IndexOf(d, key) == CHOOSE i \in 1..Len(d) : d[i].key = key

NoRecord == [name |-> <<>>, phones |-> <<>>, birthday |-> None]

lower(s) ==
    [i \in 1..Len(s) |->
        CASE s[i] = "A" -> "a" [] s[i] = "B" -> "b" [] OTHER -> s[i]]

\* Variant: the key is the lower-cased name.
add_record_lower(d, record) ==
    Append(SelectSeq(d, LAMBDA it : it.key # lower(record.name)),
           [key |-> lower(record.name), rec |-> record])

\* Variant: a list of items that is appended to, whatever keys it holds.
add_record_append(d, record) ==
    Append(d, [key |-> record.name, rec |-> record])

add_record(d, record) ==
    IF record.name \in Keys(d)
    THEN [d EXCEPT ![IndexOf(d, record.name)] =
              [key |-> record.name, rec |-> record]]
    ELSE Append(d, [key |-> record.name, rec |-> record])

\* self.data.get(name); NoRecord stands for None
find(d, name) == IF name \in Keys(d) THEN d[IndexOf(d, name)].rec ELSE NoRecord

\* Variant: the whole dict is cleared.
delete_clear(d, name) == IF name \in Keys(d) THEN <<>> ELSE d

delete(d, name) ==
    IF name \in Keys(d)
    THEN SelectSeq(d, LAMBDA it : it.key # name)
    ELSE d

\* The dict after a method changed the record stored under key in place.
Stored(d, key, rec) == [d EXCEPT ![IndexOf(d, key)].rec = rec]

RECURSIVE SumPhones(_)
SumPhones(d) ==
    IF d = <<>> THEN 0 ELSE Len(Head(d).rec.phones) + SumPhones(Tail(d))

----------------------------------------------------------------------------
(* AddressBook.get_birthdays_per_week                                      *)

\* date.replace(year=...) raises ValueError when the day does not exist in
\* that year; CanReplaceYear says that it returns.
CanReplaceYear(dt, year) == ValidDate(year, dt.m, dt.d)

ReplaceYear(dt, year) == [dt EXCEPT !.y = year]

\* birthdays_by_day[day_of_week].append(name) on the defaultdict
AppendTo(by_day, day, name) ==
    IF day \in DOMAIN by_day
    THEN [by_day EXCEPT ![day] = Append(@, name)]
    ELSE by_day @@ (day :> <<name>>)

\* Variant: only Saturday is moved.
ShiftWeekend_saturday_only(day_of_week) ==
    IF day_of_week = "Saturday" THEN "Monday" ELSE day_of_week

\* The weekend test: Saturday and Sunday are reported under Monday.
ShiftWeekend(day_of_week) ==
    IF day_of_week \in {"Saturday", "Sunday"} THEN "Monday" ELSE day_of_week

\* delta_days < 7, line 84
InWindow(delta_days) == delta_days < 7

\* The body of the loop for one record with a birthday: [raised, by_day].
birthday_step(rec, today, by_day) ==
    LET birthday == strptime(rec.birthday)
        this_year == ReplaceYear(birthday, today.y)
        next_year == ReplaceYear(birthday, today.y + 1)
        rolls == DateLess(this_year, today)
        birthday_this_year == IF rolls THEN next_year ELSE this_year
        delta_days == toordinal(birthday_this_year) - toordinal(today)
        day_of_week == DayName(fromordinal(toordinal(today) + delta_days))
    IN  IF ~CanReplaceYear(birthday, today.y)
        THEN [raised |-> TRUE, by_day |-> by_day]
        ELSE IF rolls /\ ~CanReplaceYear(birthday, today.y + 1)
        THEN [raised |-> TRUE, by_day |-> by_day]
        ELSE IF InWindow(delta_days)
        THEN [raised |-> FALSE,
              by_day |-> AppendTo(by_day, ShiftWeekend(day_of_week),
                                  rec.name)]
        ELSE [raised |-> FALSE, by_day |-> by_day]

\* The for loop over self.data.values() from position i on.
RECURSIVE birthdays_loop(_, _, _, _)
birthdays_loop(d, i, today, by_day) ==
    IF i > Len(d)
    THEN [raised |-> FALSE, by_day |-> by_day]
    ELSE IF d[i].rec.birthday # None
         THEN LET r == birthday_step(d[i].rec, today, by_day)
              IN  IF r.raised
                  THEN r
                  ELSE birthdays_loop(d, i + 1, today, r.by_day)
         ELSE birthdays_loop(d, i + 1, today, by_day)

\* [raised, by_day]: raised when ValueError leaves the method, by_day the
\* mapping it returns otherwise.
get_birthdays_per_week(d, today) ==
    LET r == birthdays_loop(d, 1, today, <<>>)
    IN  IF r.raised THEN [raised |-> TRUE, by_day |-> <<>>] ELSE r

----------------------------------------------------------------------------
(* State machine                                                           *)

Call(op, name, arg1, arg2, before, outcome) ==
    [op |-> op, name |-> name, arg1 |-> arg1, arg2 |-> arg2,
     before |-> before, outcome |-> outcome]

NoReport == [today |-> NoDate, raised |-> FALSE, by_day |-> <<>>]

Outcome(raised) == IF raised THEN "ValueError" ELSE "ok"

\* main() has no handler around the "birthdays" branch: a ValueError from
\* get_birthdays_per_week ends the process.
Crashed == last.op = "birthdays" /\ last.outcome = "ValueError"

Init ==
    /\ data = <<>>
    /\ last = Call("start", <<>>, <<>>, <<>>, <<>>, "ok")
    /\ report = NoReport

\* record.add_phone(phone) on the record stored under name
AddPhone(name, phone) ==
    /\ ~Crashed
    /\ name \in Keys(data)
    /\ Phone(phone) => SumPhones(data) < MaxPhones
    /\ LET r == add_phone(find(data, name), phone)
       IN  /\ data' = Stored(data, name, r.rec)
           /\ last' = Call("add_phone", name, phone, <<>>,
                           find(data, name).phones, Outcome(r.raised))
    /\ report' = NoReport

\* record.remove_phone(phone)
RemovePhone(name, phone) ==
    /\ ~Crashed
    /\ name \in Keys(data)
    /\ LET r == remove_phone(find(data, name), phone)
       IN  /\ data' = Stored(data, name, r.rec)
           /\ last' = Call("remove_phone", name, phone, <<>>,
                           find(data, name).phones, Outcome(r.raised))
    /\ report' = NoReport

\* record.edit_phone(old_phone, new_phone)
EditPhone(name, old_phone, new_phone) ==
    /\ ~Crashed
    /\ name \in Keys(data)
    /\ LET r == edit_phone(find(data, name), old_phone, new_phone)
       IN  /\ data' = Stored(data, name, r.rec)
           /\ last' = Call("edit_phone", name, old_phone, new_phone,
                           find(data, name).phones, Outcome(r.raised))
    /\ report' = NoReport

\* record.add_birthday(birthday)
AddBirthday(name, birthday) ==
    /\ ~Crashed
    /\ name \in Keys(data)
    /\ LET r == add_birthday(find(data, name), birthday)
       IN  /\ data' = Stored(data, name, r.rec)
           /\ last' = Call("add_birthday", name, birthday, <<>>, <<>>,
                           Outcome(r.raised))
    /\ report' = NoReport

\* The record a caller builds with Record(name), then add_phone(phone)
\* unless phone is <<>>, then add_birthday(birthday) unless it is None.
Built(name, phone, birthday) ==
    LET r0 == Record(name)
        r1 == IF phone = <<>> THEN r0 ELSE add_phone(r0, phone).rec
    IN  IF birthday = None THEN r1 ELSE add_birthday(r1, birthday).rec

\* book.add_record(record) with a record built outside the book
AddRecord(name, phone, birthday) ==
    /\ ~Crashed
    /\ Name(name)
    /\ LET record == Built(name, phone, birthday)
       IN  /\ SumPhones(delete(data, name)) + Len(record.phones) <= MaxPhones
           /\ data' = add_record(data, record)
           /\ last' = Call("add_record", name, phone, birthday, <<>>, "ok")
    /\ report' = NoReport

\* book.delete(name)
Delete(name) ==
    /\ ~Crashed
    /\ data' = delete(data, name)
    /\ last' = Call("delete", name, <<>>, <<>>, <<>>, "ok")
    /\ report' = NoReport

\* add_contact: the "add" command
AddContactCmd(name, phone) ==
    /\ ~Crashed
    /\ IF ~Name(name)
       THEN /\ data' = data
            /\ last' = Call("add", name, phone, <<>>, <<>>, "ValueError")
       ELSE LET r == add_phone(Record(name), phone)
            IN  IF r.raised
                THEN /\ data' = data
                     /\ last' = Call("add", name, phone, <<>>, <<>>, "ValueError")
                ELSE /\ SumPhones(delete(data, name)) + 1 <= MaxPhones
                     /\ data' = add_record(data, r.rec)
                     /\ last' = Call("add", name, phone, <<>>, <<>>, "ok")
    /\ report' = NoReport

\* change_contact: the "change" command
ChangeContactCmd(name, new_phone) ==
    /\ ~Crashed
    /\ LET record == find(data, name)
       IN  IF record = NoRecord
           THEN /\ data' = data
                /\ last' = Call("change", name, new_phone, <<>>, <<>>, "ok")
           ELSE IF record.phones = <<>>
           THEN /\ data' = data
                /\ last' = Call("change", name, new_phone, <<>>, <<>>,
                                "IndexError")
           ELSE LET r == edit_phone(record, record.phones[1], new_phone)
                IN  /\ data' = Stored(data, name, r.rec)
                    /\ last' = Call("change", name, new_phone, <<>>,
                                    record.phones, Outcome(r.raised))
    /\ report' = NoReport

\* add_birthday: the "add-birthday" command
AddBirthdayCmd(name, birthday) ==
    /\ ~Crashed
    /\ LET record == find(data, name)
       IN  IF record = NoRecord
           THEN /\ data' = data
                /\ last' = Call("add-birthday", name, birthday, <<>>, <<>>,
                                "KeyError")
           ELSE LET r == add_birthday(record, birthday)
                IN  /\ data' = Stored(data, name, r.rec)
                    /\ last' = Call("add-birthday", name, birthday, <<>>, <<>>,
                                    Outcome(r.raised))
    /\ report' = NoReport

\* The "birthdays" command on a day today.
Birthdays(today) ==
    /\ ~Crashed
    /\ LET r == get_birthdays_per_week(data, today)
       IN  /\ report' = [today |-> today, raised |-> r.raised,
                         by_day |-> r.by_day]
           /\ last' = Call("birthdays", <<>>, <<>>, <<>>, <<>>,
                           Outcome(r.raised))
    /\ data' = data

\* n consecutive days from y-m-d on
Days(y, m, d, n) ==
    {fromordinal(toordinal([y |-> y, m |-> m, d |-> d]) + k) : k \in 0..(n - 1)}

Todays ==
    Days(2020, 12, 24, 12) \cup Days(2021, 12, 24, 12) \cup
    Days(2024, 12, 24, 12) \cup Days(2024, 6, 4, 10) \cup
    Days(2021, 6, 4, 10) \cup Days(2022, 6, 4, 10) \cup
    Days(2023, 2, 22, 9) \cup Days(2024, 2, 22, 9)

\* The book through the Record and AddressBook methods and the commands
\* that change it.
Next ==
    \/ \E name \in KeyInputs, phone \in PhoneInputs : AddPhone(name, phone)
    \/ \E name \in KeyInputs, phone \in PhoneInputs : RemovePhone(name, phone)
    \/ \E name \in KeyInputs, old \in PhoneInputs, new \in PhoneInputs :
           EditPhone(name, old, new)
    \/ \E name \in KeyInputs, birthday \in DateInputs :
           AddBirthday(name, birthday)
    \/ \E name \in KeyInputs, phone \in {<<>>, PhoneQ},
          birthday \in {None, DateJan2} : AddRecord(name, phone, birthday)
    \/ \E name \in KeyInputs : Delete(name)
    \/ \E name \in NameInputs, phone \in PhoneInputs :
           AddContactCmd(name, phone)
    \/ \E name \in KeyInputs, phone \in PhoneInputs :
           ChangeContactCmd(name, phone)
    \/ \E name \in KeyInputs, birthday \in DateInputs :
           AddBirthdayCmd(name, birthday)

Spec == Init /\ [][Next]_vars

\* A session of "add", "add-birthday" and "birthdays" commands, with
\* book.delete.
NextReport ==
    \/ \E name \in NameInputs : AddContactCmd(name, PhoneP)
    \/ \E name \in KeyInputs, birthday \in ReportDateInputs :
           AddBirthdayCmd(name, birthday)
    \/ \E name \in KeyInputs : Delete(name)
    \/ \E today \in Todays : Birthdays(today)

SpecReport == Init /\ [][NextReport]_vars

----------------------------------------------------------------------------
(* Properties                                                              *)

PhonesOf(d, name) == find(d, name).phones

Holds(phones, phone) == \E i \in 1..Len(phones) : phones[i] = phone

CountOf(phones, phone) ==
    Cardinality({i \in 1..Len(phones) : phones[i] = phone})

\* C1: every phone stored in a contact's phone list has exactly 10
\* characters, all of them decimal digits.
C1_StoredPhonesValid ==
    \A i \in 1..Len(data) :
        \A j \in 1..Len(data[i].rec.phones) :
            LET p == data[i].rec.phones[j]
            IN  Len(p) = 10 /\ \A k \in 1..Len(p) : p[k] \in Digits

\* C2: a call that fails (raises) leaves the key set and every contact's
\* name, phone list and birthday as they were before the call.
C2_FailedCallWritesNothing ==
    [][last'.outcome # "ok" => data' = data]_vars

\* A failed edit_phone on a list that holds old_phone more than once.
C2_Witness ==
    /\ last.op = "edit_phone"
    /\ last.outcome = "ValueError"
    /\ CountOf(last.before, last.arg1) >= 2
    /\ PhonesOf(data, last.name) = last.before

\* The birthday's month and day in the year of today, or in the next year
\* when that date is before today; defined when those dates exist.
AnchorDefined(birthday, today) ==
    /\ ValidDate(today.y, birthday.m, birthday.d)
    /\ DateLess([birthday EXCEPT !.y = today.y], today)
           => ValidDate(today.y + 1, birthday.m, birthday.d)

Anchored(birthday, today) ==
    IF DateLess([birthday EXCEPT !.y = today.y], today)
    THEN [birthday EXCEPT !.y = today.y + 1]
    ELSE [birthday EXCEPT !.y = today.y]

DeltaDays(birthday, today) ==
    toordinal(Anchored(birthday, today)) - toordinal(today)

\* How many times name is listed in the report, over all its buckets.
Listed(by_day, name) ==
    Cardinality({<<day, j>> \in (DOMAIN by_day) \X (1..Len(data)) :
                     j <= Len(by_day[day]) /\ by_day[day][j] = name})

\* C3: after "birthdays", a contact is listed exactly once if it has a
\* birthday whose deltaDays is in 0..6, and not at all otherwise.
C3_ListedIffWithinSixDays ==
    last.op = "birthdays" =>
        \A i \in 1..Len(data) :
            LET rec == data[i].rec
                due == /\ rec.birthday # None
                       /\ AnchorDefined(strptime(rec.birthday), report.today)
                       /\ DeltaDays(strptime(rec.birthday), report.today)
                              \in 0..6
            IN  Listed(report.by_day, rec.name) = IF due THEN 1 ELSE 0

\* C4: the report of "birthdays" has no Saturday and no Sunday bucket, and
\* every name it lists stands under Monday when the contact's anchored
\* birthday is a Saturday or Sunday, and under that birthday's weekday
\* name otherwise.
C4_WeekendUnderMonday ==
    last.op = "birthdays" =>
        /\ "Saturday" \notin DOMAIN report.by_day
        /\ "Sunday" \notin DOMAIN report.by_day
        /\ \A day \in DOMAIN report.by_day :
               \A j \in 1..Len(report.by_day[day]) :
                   LET rec == find(data, report.by_day[day][j])
                       on  == DayName(Anchored(strptime(rec.birthday),
                                               report.today))
                   IN  /\ rec # NoRecord
                       /\ rec.birthday # None
                       /\ day = IF on \in {"Saturday", "Sunday"}
                                THEN "Monday" ELSE on

\* A report that lists under Monday a contact whose birthday falls on the
\* Sunday six days after today.
C4_Witness ==
    /\ last.op = "birthdays"
    /\ ~report.raised
    /\ "Monday" \in DOMAIN report.by_day
    /\ \E j \in 1..Len(report.by_day["Monday"]) :
           LET rec == find(data, report.by_day["Monday"][j])
           IN  /\ rec.birthday # None
               /\ DayName(Anchored(strptime(rec.birthday), report.today))
                      = "Sunday"
               /\ DeltaDays(strptime(rec.birthday), report.today) = 6

\* C5: "birthdays" returns a mapping, whatever the book and the day.
C5_ReportReturns == last.op = "birthdays" => last.outcome = "ok"

\* C6: every key of the book is the name of the contact stored under it.
C6_KeyIsName == \A i \in 1..Len(data) : data[i].key = data[i].rec.name

\* Two contacts in the book, the second put there by add_record.
C6_Witness ==
    /\ Len(data) = 2
    /\ last.op = "add_record"
    /\ data[2].key = last.name

\* C7: after add_record of a contact named n, find(n) gives a contact
\* named n; after delete(n), find(n) gives None; delete(n) of a name that
\* is no key changes nothing; neither changes what any other name finds.
C7_AddFindDelete ==
    [][/\ last'.op = "add_record" =>
              /\ find(data', last'.name) # NoRecord
              /\ find(data', last'.name).name = last'.name
              /\ \A n \in KeyInputs \ {last'.name} :
                     find(data', n) = find(data, n)
       /\ last'.op = "delete" =>
              /\ find(data', last'.name) = NoRecord
              /\ last'.name \notin Keys(data) => data' = data
              /\ \A n \in KeyInputs \ {last'.name} :
                     find(data', n) = find(data, n)]_vars

\* delete took one contact out and the other is still found.
C7_Witness ==
    /\ last.op = "delete"
    /\ find(data, last.name) = NoRecord
    /\ \E n \in KeyInputs : find(data, n) # NoRecord /\ find(data, n).name = n

\* C8: add_record (also through "add") of a name that is a key keeps the
\* number of entries, and find(name) then gives the new contact: its
\* phones and birthday, none of the old contact's.
C8_AddRecordReplaces ==
    [][(/\ last'.op \in {"add_record", "add"}
        /\ last'.outcome = "ok"
        /\ last'.name \in Keys(data)) =>
           /\ Len(data') = Len(data)
           /\ find(data', last'.name) =
                  [name |-> last'.name,
                   phones |-> IF last'.arg1 = <<>> THEN <<>>
                              ELSE <<last'.arg1>>,
                   birthday |-> last'.arg2]]_vars

\* "add" of the name that was put in first, still in first place: the
\* contact it had was replaced, and the new one has no birthday.
C8_Witness ==
    /\ last.op = "add"
    /\ last.outcome = "ok"
    /\ Len(data) = 2
    /\ data[1].key = last.name
    /\ data[1].rec.birthday = None
    /\ data[1].rec.phones = <<last.arg1>>

\* phones with its first entry equal to old_phone replaced by new_phone
ReplaceFirst(phones, old_phone, new_phone) ==
    LET k == CHOOSE i \in 1..Len(phones) :
                 /\ phones[i] = old_phone
                 /\ \A j \in 1..(i - 1) : phones[j] # old_phone
    IN  [phones EXCEPT ![k] = new_phone]

\* phones with every entry equal to old_phone replaced by new_phone
ReplaceAll(phones, old_phone, new_phone) ==
    [i \in 1..Len(phones) |->
        IF phones[i] = old_phone THEN new_phone ELSE phones[i]]

\* C9 as stated: edit_phone with old_phone in the list and a valid
\* new_phone replaces the first entry equal to old_phone and no other.
C9_ReplacesFirstOnly ==
    [][(/\ last'.op = "edit_phone"
        /\ Holds(PhonesOf(data, last'.name), last'.arg1)
        /\ Phone(last'.arg2)) =>
           PhonesOf(data', last'.name) =
               ReplaceFirst(PhonesOf(data, last'.name), last'.arg1,
                            last'.arg2)]_vars

\* C9 amended: edit_phone with old_phone in the list and a valid new_phone
\* replaces every entry equal to old_phone by new_phone, in place, and
\* leaves every other entry, the length and the order as they were.
C9_ReplacesEveryMatch ==
    [][(/\ last'.op = "edit_phone"
        /\ Holds(PhonesOf(data, last'.name), last'.arg1)
        /\ Phone(last'.arg2)) =>
           /\ last'.outcome = "ok"
           /\ PhonesOf(data', last'.name) =
                  ReplaceAll(PhonesOf(data, last'.name), last'.arg1,
                             last'.arg2)]_vars

\* An edit_phone that found old_phone twice and wrote a different valid
\* new_phone.
C9_Witness ==
    /\ last.op = "edit_phone"
    /\ last.outcome = "ok"
    /\ Phone(last.arg2)
    /\ last.arg1 # last.arg2
    /\ CountOf(last.before, last.arg1) >= 2
    /\ CountOf(PhonesOf(data, last.name), last.arg2) >= 2

\* C10: edit_phone with old_phone not in the list changes nothing and
\* does not fail, whatever new_phone is.
C10_AbsentOldIsNoOp ==
    [][(/\ last'.op = "edit_phone"
        /\ ~Holds(PhonesOf(data, last'.name), last'.arg1)) =>
           /\ data' = data
           /\ last'.outcome = "ok"]_vars

\* An edit_phone of a phone the list does not hold, with a new_phone of
\* three characters.
C10_Witness ==
    /\ last.op = "edit_phone"
    /\ last.outcome = "ok"
    /\ last.before # <<>>
    /\ ~Holds(last.before, last.arg1)
    /\ Len(last.arg2) # 10
    /\ PhonesOf(data, last.name) = last.before

====
